---------------------------- MODULE Spec2Model ----------------------------
(***************************************************************************)
(* A model of Dashboard_micheal.py: the loader load_data and the Dash      *)
(* callback update_dashboard.                                              *)
(*                                                                         *)
(* Representation.                                                         *)
(*  - A string is a sequence of one-character strings, so that             *)
(*    str.startswith, str.replace and str.title are computed character by  *)
(*    character.                                                           *)
(*  - A cell of a table is a sequence: <<>> is a missing value (an empty   *)
(*    CSV field, which pandas reads as NaN), <<n>> is the number n, and a  *)
(*    non-empty sequence of characters is a string.                        *)
(*  - A DataFrame is a record [columns, dtypes, data]: the column names,   *)
(*    the column dtypes ("num" or "str") and the rows, each a sequence of  *)
(*    cells aligned with columns.                                          *)
(*  - Numbers are exact integers.  Measures of the crop and animal files   *)
(*    are whole base units; a value shown in a table after                 *)
(*    round(x / 10 ** 6, 2) is held as an integer count of hundredths.     *)
(*    Measures of the area and inventory files are held in tenths, and     *)
(*    DataFrame.round() rounds them to whole units.                        *)
(***************************************************************************)
EXTENDS Integers, Sequences, FiniteSets, TLC

(***************************************************************************)
(* Column names and other string constants of the source.                  *)
(***************************************************************************)
\* "selfloop"
s_selfloop ==
    <<"s","e","l","f","l","o","o","p">>

\* "within_county"
s_within_county ==
    <<"w","i","t","h","i","n","_","c","o","u","n","t","y">>

\* "FIPS"
s_FIPS ==
    <<"F","I","P","S">>

\* "county"
s_county ==
    <<"c","o","u","n","t","y">>

\* "commodity"
s_commodity ==
    <<"c","o","m","m","o","d","i","t","y">>

\* "Commodity"
s_Commodity ==
    <<"C","o","m","m","o","d","i","t","y">>

\* "total_nitrogen_loss"
s_total_nitrogen_loss ==
    <<"t","o","t","a","l","_","n","i","t","r","o","g","e","n","_","l","o","s","s">>

\* "log_"
s_log_prefix ==
    <<"l","o","g","_">>

\* "nitrogen_loss1"
s_nitrogen_loss1 ==
    <<"n","i","t","r","o","g","e","n","_","l","o","s","s","1">>

\* "nitrogen_loss2"
s_nitrogen_loss2 ==
    <<"n","i","t","r","o","g","e","n","_","l","o","s","s","2">>

\* "nitrogen_loss3"
s_nitrogen_loss3 ==
    <<"n","i","t","r","o","g","e","n","_","l","o","s","s","3">>

\* "nitrogen_loss4"
s_nitrogen_loss4 ==
    <<"n","i","t","r","o","g","e","n","_","l","o","s","s","4">>

\* "nitrogen_loss5"
s_nitrogen_loss5 ==
    <<"n","i","t","r","o","g","e","n","_","l","o","s","s","5">>

\* "nitrogen_loss6"
s_nitrogen_loss6 ==
    <<"n","i","t","r","o","g","e","n","_","l","o","s","s","6">>

\* "nitrogen_loss7"
s_nitrogen_loss7 ==
    <<"n","i","t","r","o","g","e","n","_","l","o","s","s","7">>

\* "import_crop_processing_nitrogen"
s_import_crop_processing_nitrogen ==
    <<"i","m","p","o","r","t","_","c","r","o","p","_","p","r","o","c","e","s","s","i","n","g","_","n","i","t","r","o","g","e","n">>

\* "export_crop_processing_nitrogen"
s_export_crop_processing_nitrogen ==
    <<"e","x","p","o","r","t","_","c","r","o","p","_","p","r","o","c","e","s","s","i","n","g","_","n","i","t","r","o","g","e","n">>

\* "within_county_crop_processing_nitrogen"
s_within_county_crop_processing_nitrogen ==
    <<"w","i","t","h","i","n","_","c","o","u","n","t","y","_","c","r","o","p","_","p","r","o","c","e","s","s","i","n","g","_","n","i","t","r","o","g","e","n">>

\* "import_animal_nitrogen"
s_import_animal_nitrogen ==
    <<"i","m","p","o","r","t","_","a","n","i","m","a","l","_","n","i","t","r","o","g","e","n">>

\* "export_animal_nitrogen"
s_export_animal_nitrogen ==
    <<"e","x","p","o","r","t","_","a","n","i","m","a","l","_","n","i","t","r","o","g","e","n">>

\* "within_county_animal_nitrogen"
s_within_county_animal_nitrogen ==
    <<"w","i","t","h","i","n","_","c","o","u","n","t","y","_","a","n","i","m","a","l","_","n","i","t","r","o","g","e","n">>

\* "import_meat_nitrogen"
s_import_meat_nitrogen ==
    <<"i","m","p","o","r","t","_","m","e","a","t","_","n","i","t","r","o","g","e","n">>

\* "export_meat_nitrogen"
s_export_meat_nitrogen ==
    <<"e","x","p","o","r","t","_","m","e","a","t","_","n","i","t","r","o","g","e","n">>

\* "within_county_meat_nitrogen"
s_within_county_meat_nitrogen ==
    <<"w","i","t","h","i","n","_","c","o","u","n","t","y","_","m","e","a","t","_","n","i","t","r","o","g","e","n">>

\* "Total Inventory (head)"
s_Total_Inventory_head ==
    <<"T","o","t","a","l"," ","I","n","v","e","n","t","o","r","y"," ","(","h","e","a","d",")">>

\* "Total Harvested Area (Acre)"
s_Total_Harvested_Area_Acre ==
    <<"T","o","t","a","l"," ","H","a","r","v","e","s","t","e","d"," ","A","r","e","a"," ","(","A","c","r","e",")">>

(***************************************************************************)
(* Python string operations.                                               *)
(***************************************************************************)
LowerLetters ==
    <<"a","b","c","d","e","f","g","h","i","j","k","l","m",
      "n","o","p","q","r","s","t","u","v","w","x","y","z">>

UpperLetters ==
    <<"A","B","C","D","E","F","G","H","I","J","K","L","M",
      "N","O","P","Q","R","S","T","U","V","W","X","Y","Z">>

\* The characters in code point order; only the order is used.
CodeOrder ==
    <<" ", "(", ")">> \o UpperLetters \o <<"_">> \o LowerLetters

IndexIn(seq, c) == CHOOSE i \in DOMAIN seq : seq[i] = c

IsLower(c) == \E i \in DOMAIN LowerLetters : LowerLetters[i] = c

IsUpper(c) == \E i \in DOMAIN UpperLetters : UpperLetters[i] = c

IsCased(c) == IsLower(c) \/ IsUpper(c)

ToUpper(c) == IF IsLower(c) THEN UpperLetters[IndexIn(LowerLetters, c)] ELSE c

ToLower(c) == IF IsUpper(c) THEN LowerLetters[IndexIn(UpperLetters, c)] ELSE c

\* str.startswith(prefix)
StartsWith(s, prefix) ==
    /\ Len(s) >= Len(prefix)
    /\ SubSeq(s, 1, Len(prefix)) = prefix

\* str.replace(old, new): every non-overlapping occurrence, left to right.
RECURSIVE StrReplace(_, _, _)
StrReplace(s, old, new) ==
    IF Len(s) < Len(old) THEN s
    ELSE IF SubSeq(s, 1, Len(old)) = old
         THEN new \o StrReplace(SubSeq(s, Len(old) + 1, Len(s)), old, new)
         ELSE <<Head(s)>> \o StrReplace(Tail(s), old, new)

\* str.title(): a cased character is upper-cased when the character before
\* it is not cased (or there is none) and lower-cased otherwise.
StrTitle(s) ==
    [i \in DOMAIN s |->
        IF ~IsCased(s[i]) THEN s[i]
        ELSE IF i > 1 /\ IsCased(s[i - 1]) THEN ToLower(s[i])
        ELSE ToUpper(s[i])]

\* Series.str.title().str.replace('_', ' ') on one cell; NaN stays NaN.
FormatCommodity(cell) == StrReplace(StrTitle(cell), <<"_">>, <<" ">>)

\* Lexicographic order of strings by code point.
RECURSIVE StrLess(_, _)
StrLess(a, b) ==
    IF b = <<>> THEN FALSE
    ELSE IF a = <<>> THEN TRUE
    ELSE IF Head(a) = Head(b) THEN StrLess(Tail(a), Tail(b))
    ELSE IndexIn(CodeOrder, Head(a)) < IndexIn(CodeOrder, Head(b))

(***************************************************************************)
(* pandas and numpy operations.                                            *)
(***************************************************************************)
NaN == <<>>

Num(n) == <<n>>

IsNa(cell) == cell = NaN

\* The value a cell contributes to a sum with skipna=True.
ValueOrZero(cell) == IF IsNa(cell) THEN 0 ELSE cell[1]

RECURSIVE SumCells(_)
SumCells(cells) ==
    IF cells = <<>> THEN 0 ELSE ValueOrZero(Head(cells)) + SumCells(Tail(cells))

\* numpy.log1p, kept symbolic: log1p(NaN) is NaN.
Log1p(cell) == IF IsNa(cell) THEN NaN ELSE <<"log1p", cell[1]>>

\* The nearest integer to n / d (n >= 0, d > 0), ties to the even integer:
\* numpy's rint, which both round(numpy.float64, 2) and Series.round(2) use.
RoundHalfEven(n, d) ==
    LET q == n \div d
        r == n % d
    IN  IF 2 * r < d THEN q
        ELSE IF 2 * r > d THEN q + 1
        ELSE IF q % 2 = 0 THEN q ELSE q + 1

\* round(x / 10 ** 6, 2), as a count of hundredths: the nearest integer to
\* x * 10 ^ 2 / 10 ^ 6, with 10 ^ 2 cancelled.
Decimals == 2

RoundKTons(x) == RoundHalfEven(x, 10 ^ 6 \div 10 ^ Decimals)

\* DataFrame.round() on a cell held in tenths.
RoundTenths(cell) == IF IsNa(cell) THEN NaN ELSE Num(10 * RoundHalfEven(cell[1], 10))

EmptyFrame == [columns |-> <<>>, dtypes |-> <<>>, data |-> <<>>]

HasColumn(df, c) == \E i \in DOMAIN df.columns : df.columns[i] = c

HasColumns(df, cs) == \A i \in DOMAIN cs : HasColumn(df, cs[i])

ColumnIndex(df, c) == CHOOSE i \in DOMAIN df.columns : df.columns[i] = c

\* df[c]: the column as a sequence of cells.
Column(df, c) == [r \in DOMAIN df.data |-> df.data[r][ColumnIndex(df, c)]]

\* df[cs]: the named columns, in the order given.
Select(df, cs) ==
    [columns |-> cs,
     dtypes  |-> [i \in DOMAIN cs |-> df.dtypes[ColumnIndex(df, cs[i])]],
     data    |-> [r \in DOMAIN df.data |->
                     [i \in DOMAIN cs |-> df.data[r][ColumnIndex(df, cs[i])]]]]

\* df[c] = values: replaces the column when it exists, appends it otherwise.
SetColumn(df, c, dtype, values) ==
    IF HasColumn(df, c)
    THEN LET k == ColumnIndex(df, c)
         IN  [df EXCEPT !.dtypes[k] = dtype,
                        !.data = [r \in DOMAIN df.data |->
                                     [df.data[r] EXCEPT ![k] = values[r]]]]
    ELSE [columns |-> Append(df.columns, c),
          dtypes  |-> Append(df.dtypes, dtype),
          data    |-> [r \in DOMAIN df.data |-> Append(df.data[r], values[r])]]

\* df.sum(axis=1), skipna: one total per row.
RowSums(df) == [r \in DOMAIN df.data |-> Num(SumCells(df.data[r]))]

\* df.sum(): one total per column, skipna.
ColumnSums(df) == [i \in DOMAIN df.columns |-> SumCells(Column(df, df.columns[i]))]

RECURSIVE SumSeq(_)
SumSeq(s) == IF s = <<>> THEN 0 ELSE Head(s) + SumSeq(Tail(s))

\* pd.concat([a, b]) of two frames with the same columns.
Concat(a, b) == [a EXCEPT !.data = a.data \o b.data]

\* The rows of a sequence that satisfy a test, in order.
RECURSIVE RowsWhere(_, _, _)
RowsWhere(rows, k, key) ==
    IF rows = <<>> THEN <<>>
    ELSE IF Head(rows)[k] = key
         THEN <<Head(rows)>> \o RowsWhere(Tail(rows), k, key)
         ELSE RowsWhere(Tail(rows), k, key)

\* The order of group keys: numbers by value, strings by code point.
KeyLess(dtype, a, b) == IF dtype = "num" THEN a[1] < b[1] ELSE StrLess(a, b)

RECURSIVE SortKeys(_, _)
SortKeys(keys, dtype) ==
    IF keys = {} THEN <<>>
    ELSE LET m == CHOOSE x \in keys : \A y \in keys \ {x} : KeyLess(dtype, x, y)
         IN  <<m>> \o SortKeys(keys \ {m}, dtype)

\* The group keys of df.groupby(c): the distinct non-missing keys (dropna),
\* sorted (sort=True).
GroupKeys(df, c) ==
    SortKeys({cell \in {Column(df, c)[r] : r \in DOMAIN df.data} : ~IsNa(cell)},
             df.dtypes[ColumnIndex(df, c)])

\* agg 'first': the first non-missing cell, NaN when there is none.
RECURSIVE FirstValid(_)
FirstValid(cells) ==
    IF cells = <<>> THEN NaN
    ELSE IF IsNa(Head(cells)) THEN FirstValid(Tail(cells))
    ELSE Head(cells)

(***************************************************************************)
(* Module-level constants of the program.                                  *)
(***************************************************************************)
\* data_paths: the year keys and the directory each resolves to.
data_paths == [y \in {"2017", "2030", "2050"} |-> <<"data", y>>]

\* nitrogen_loss_labels, in insertion order.
nitrogen_loss_labels ==
    << [col |-> s_nitrogen_loss1, label |-> "N input not taken by crop"],
       [col |-> s_nitrogen_loss2, label |-> "Crop processing N loss"],
       [col |-> s_nitrogen_loss3, label |-> "Feed waste & manure loss"],
       [col |-> s_nitrogen_loss4, label |-> "Slaughtering/milking/laying N loss"],
       [col |-> s_nitrogen_loss5, label |-> "Food processing N loss"],
       [col |-> s_nitrogen_loss6, label |-> "Food N waste"],
       [col |-> s_nitrogen_loss7, label |-> "Human N waste"] >>

\* The loss columns summed per table.
crop_loss_columns == <<s_nitrogen_loss1, s_nitrogen_loss2>>

animal_loss_columns ==
    <<s_nitrogen_loss3, s_nitrogen_loss4, s_nitrogen_loss5,
      s_nitrogen_loss6, s_nitrogen_loss7>>

\* The value of the dropdown when the page is first served.
initial_year == "2017"

stage_names == <<"Crop Processing", "Animal Nitrogen", "Meat Nitrogen">>

stage_columns ==
    << <<s_import_crop_processing_nitrogen, s_export_crop_processing_nitrogen,
         s_within_county_crop_processing_nitrogen>>,
       <<s_import_animal_nitrogen, s_export_animal_nitrogen,
         s_within_county_animal_nitrogen>>,
       <<s_import_meat_nitrogen, s_export_meat_nitrogen,
         s_within_county_meat_nitrogen>> >>

(***************************************************************************)
(* load_data.                                                              *)
(***************************************************************************)
NoException == "none"

\* One renamed column name (the list comprehensions of load_data).
RenameColumnSkipped(col) == col

RenameColumn(col) ==
    IF StartsWith(col, s_selfloop)
    THEN StrReplace(col, s_selfloop, s_within_county)
    ELSE col

RenameColumns(df) ==
    [df EXCEPT !.columns = [i \in DOMAIN df.columns |-> RenameColumn(df.columns[i])]]

\* df[loss columns].sum(axis=1) without skipna: NaN when any cell is NaN.
RowTotalsNoSkip(df) ==
    [r \in DOMAIN df.data |->
        IF \E i \in DOMAIN df.data[r] : IsNa(df.data[r][i])
        THEN NaN ELSE Num(SumCells(df.data[r]))]

\* df[loss columns].sum(axis=1)
RowTotals(df) == RowSums(df)

\* df['total_nitrogen_loss'] = df[loss columns].sum(axis=1)
AddTotalLoss(df, loss_columns) ==
    SetColumn(df, s_total_nitrogen_loss, "num", RowTotals(Select(df, loss_columns)))

\* The aggregations of the county-level groupby.
AggLast(cells) ==
    IF \A i \in DOMAIN cells : IsNa(cells[i]) THEN NaN
    ELSE cells[CHOOSE i \in DOMAIN cells :
                   ~IsNa(cells[i]) /\ \A j \in DOMAIN cells : j > i => IsNa(cells[j])]

AggFirst(cells) == FirstValid(cells)

AggMax(cells) ==
    Num(CHOOSE m \in {ValueOrZero(cells[i]) : i \in DOMAIN cells} \cup {0} :
            \A i \in DOMAIN cells : ValueOrZero(cells[i]) <= m)

AggSum(cells) == Num(SumCells(cells))

\* pd.concat([first, second]).groupby('FIPS').agg({'total_nitrogen_loss':
\* 'sum', 'county': 'first'}).reset_index() on the two reduced frames.
GroupByFips(first, second) ==
    LET both == Concat(first, second)
        keys == GroupKeys(both, s_FIPS)
        Rows(k) == RowsWhere(both.data, ColumnIndex(both, s_FIPS), keys[k])
        Cells(k, c) ==
            [r \in DOMAIN Rows(k) |-> Rows(k)[r][ColumnIndex(both, c)]]
    IN  [columns |-> <<s_FIPS, s_total_nitrogen_loss, s_county>>,
         dtypes  |-> <<"num", "num", "str">>,
         data    |-> [k \in DOMAIN keys |->
                        << keys[k],
                           AggSum(Cells(k, s_total_nitrogen_loss)),
                           AggFirst(Cells(k, s_county)) >>]]

county_columns == <<s_FIPS, s_county, s_total_nitrogen_loss>>

TotalNitrogen(crop, animal) ==
    GroupByFips(Select(crop, county_columns), Select(animal, county_columns))

\* pd.read_csv on the five files of a directory, in the order of the source:
\* the exception of the first file that cannot be read, if any.
file_names ==
    <<"nitrogen_losses_summary", "harvested_area_by_commodity",
      "inventory_by_commodity", "crop_processing_nitrogen",
      "animal_stage_nitrogen">>

ReadError(file) ==
    IF file.state = "missing" THEN "FileNotFoundError"
    ELSE IF file.state = "malformed" THEN "ParserError"
    ELSE NoException

RECURSIVE FirstReadError(_, _)
FirstReadError(dir, names) ==
    IF names = <<>> THEN NoException
    ELSE IF ReadError(dir[Head(names)]) # NoException
         THEN ReadError(dir[Head(names)])
         ELSE FirstReadError(dir, Tail(names))

Frames(n, a, i, c, an, t) ==
    [nitrogen_df |-> n, area_df |-> a, inventory_df |-> i,
     crop_df |-> c, animal_df |-> an, total_nitrogen_df |-> t]

Raised(e) == [exc |-> e, frames |-> Frames(EmptyFrame, EmptyFrame, EmptyFrame,
                                           EmptyFrame, EmptyFrame, EmptyFrame)]

\* load_data(year) on the files of the disk: the exception it raises or the
\* six frames it returns.
load_data(disk, year) ==
    IF year \notin DOMAIN data_paths THEN Raised("KeyError")
    ELSE
    LET dir == disk[data_paths[year][2]]
    IN  IF FirstReadError(dir, file_names) # NoException
        THEN Raised(FirstReadError(dir, file_names))
        ELSE
        LET crop0   == RenameColumns(dir["crop_processing_nitrogen"].frame)
            animal0 == RenameColumns(dir["animal_stage_nitrogen"].frame)
        IN  IF \/ ~HasColumns(crop0, crop_loss_columns)
               \/ ~HasColumns(animal0, animal_loss_columns)
            THEN Raised("KeyError")
            ELSE
            LET crop1   == AddTotalLoss(crop0, crop_loss_columns)
                animal1 == AddTotalLoss(animal0, animal_loss_columns)
            IN  IF \/ ~HasColumns(crop1, county_columns)
                   \/ ~HasColumns(animal1, county_columns)
                THEN Raised("KeyError")
                ELSE [exc    |-> NoException,
                      frames |-> Frames(dir["nitrogen_losses_summary"].frame,
                                        dir["harvested_area_by_commodity"].frame,
                                        dir["inventory_by_commodity"].frame,
                                        crop1, animal1,
                                        TotalNitrogen(crop1, animal1))]

(***************************************************************************)
(* update_dashboard: the pieces of the callback.                           *)
(***************************************************************************)
\* px.choropleth(df, locations="FIPS", color=color, hover_name="county",
\* hover_data={hover: True}, title=title): the data the figure is built on.
Choropleth(df, color, hover, title) ==
    [title      |-> title,
     locations  |-> Column(df, s_FIPS),
     color      |-> Column(df, color),
     hover_name |-> Column(df, s_county),
     hover_data |-> Column(df, hover)]

\* df[f"log_{col}"] = np.log1p(df[col])
AddLogColumn(df, col) ==
    SetColumn(df, s_log_prefix \o col, "num",
              [r \in DOMAIN df.data |-> Log1p(Column(df, col)[r])])

\* The log columns of a loop over cols, up to the first col the frame lacks
\* (where df[col] raises KeyError).
RECURSIVE AddLogColumns(_, _)
AddLogColumns(df, cols) ==
    IF cols = <<>> \/ ~HasColumn(df, Head(cols)) THEN df
    ELSE AddLogColumns(AddLogColumn(df, Head(cols)), Tail(cols))

\* The map of loss category i (1..7), on the frame that holds its column.
LossMap(df, i) ==
    Choropleth(df, s_log_prefix \o nitrogen_loss_labels[i].col,
               nitrogen_loss_labels[i].col,
               <<"Nitrogen Loss Stage", i, nitrogen_loss_labels[i].label>>)

\* Lines 154-206: the seven category maps and the county total map.
LossMaps(crop, animal, total) ==
    [i \in 1..8 |->
        IF i <= 2 THEN LossMap(crop, i)
        ELSE IF i <= 7 THEN LossMap(animal, i)
        ELSE Choropleth(total, s_log_prefix \o s_total_nitrogen_loss,
                        s_total_nitrogen_loss,
                        <<"Total Nitrogen Loss by County">>)]

\* df[cols].sum().sum(): the sum of the column sums.
SumOfSums(df, cols) == SumSeq(ColumnSums(Select(df, cols)))

\* Lines 218-220: the per-category values, each converted and rounded.
CategoryValues(crop, animal) ==
    [i \in DOMAIN ColumnSums(Select(crop, crop_loss_columns)) |->
        RoundKTons(ColumnSums(Select(crop, crop_loss_columns))[i])]
    \o
    [i \in DOMAIN ColumnSums(Select(animal, animal_loss_columns)) |->
        RoundKTons(ColumnSums(Select(animal, animal_loss_columns))[i])]

\* The grand total obtained by adding the rounded per-category values.
TotalOfRounded(crop, animal) == SumSeq(CategoryValues(crop, animal))

\* The grand total with the last animal category left out.
TotalWithoutLast(crop, animal) ==
    RoundKTons(SumOfSums(crop, crop_loss_columns)
               + SumOfSums(animal, SubSeq(animal_loss_columns, 1, 4)))

\* Lines 209-213: the grand total, rounded once.  The two quotients by
\* 10 ** 6 are added exactly.
total_nitrogen_loss(crop, animal) ==
    RoundKTons(SumOfSums(crop, crop_loss_columns)
               + SumOfSums(animal, animal_loss_columns))

\* Lines 214-223: the rows of the loss summary table.
nitrogen_loss_table(crop, animal) ==
    [i \in 1..8 |->
        IF i <= 7
        THEN [id    |-> <<"Nitrogen Loss Stage", i>>,
              type  |-> nitrogen_loss_labels[i].label,
              total |-> CategoryValues(crop, animal)[i]]
        ELSE [id    |-> <<"Total Nitrogen Loss">>,
              type  |-> "Total Nitrogen Loss",
              total |-> total_nitrogen_loss(crop, animal)]]

\* Lines 280-289: groupby("commodity")[columns].sum().reset_index(), the
\* conversion, the label formatting and the renamed columns.
StageTable(df, columns) ==
    LET keys    == GroupKeys(df, s_commodity)
        Rows(k) == RowsWhere(df.data, ColumnIndex(df, s_commodity), keys[k])
        Sum(k, c) == SumCells([r \in DOMAIN Rows(k) |->
                                  Rows(k)[r][ColumnIndex(df, c)]])
    IN  [columns |-> <<"Commodity", "Import (K Tons)", "Export (K Tons)",
                       "Within County (K Tons)">>,
         data    |-> [k \in DOMAIN keys |->
                        << FormatCommodity(keys[k]),
                           RoundKTons(Sum(k, columns[1])),
                           RoundKTons(Sum(k, columns[2])),
                           RoundKTons(Sum(k, columns[3])) >>]]

\* The title of a stage map: col.replace('_', ' ').title()
StageMapTitle(col) == StrTitle(StrReplace(col, <<"_">>, <<" ">>))

\* One iteration of the loop of lines 243-299 that completes: the three
\* maps and the table of the stage.
StageSection(df, columns) ==
    [maps  |-> [j \in 1..3 |->
                  Choropleth(AddLogColumns(df, SubSeq(columns, 1, j)),
                             s_log_prefix \o columns[j], columns[j],
                             StageMapTitle(columns[j]))],
     table |-> StageTable(AddLogColumns(df, columns), columns)]

\* Lines 303-308: the Commodity column formatted, when the frame has one.
FormatCommodityColumn(df) ==
    IF HasColumn(df, s_Commodity)
    THEN SetColumn(df, s_Commodity, "str",
                   [r \in DOMAIN df.data |-> FormatCommodity(Column(df, s_Commodity)[r])])
    ELSE df

\* px.pie(df, names=names, values=values)
Pie(df, names, values) ==
    [names |-> Column(df, names), values |-> Column(df, values)]

\* DataFrame.round(): the numeric columns rounded to whole units.
RoundFrame(df) ==
    [df EXCEPT !.data =
        [r \in DOMAIN df.data |->
            [i \in DOMAIN df.columns |->
                IF df.dtypes[i] = "num" THEN RoundTenths(df.data[r][i])
                ELSE df.data[r][i]]]]

\* dash_table.DataTable(data=df.to_dict("records"), columns=...)
DataTable(df) == [columns |-> df.columns, data |-> df.data]

\* Lines 303-342 when both pies can be drawn.
InventoryHarvestSection(inventory, area) ==
    << Pie(FormatCommodityColumn(inventory), s_Commodity, s_Total_Inventory_head),
       Pie(FormatCommodityColumn(area), s_Commodity, s_Total_Harvested_Area_Acre),
       DataTable(RoundFrame(FormatCommodityColumn(inventory))),
       DataTable(RoundFrame(FormatCommodityColumn(area))) >>

\* The five outputs of the callback, before the first return.
EmptyPage ==
    [chloropleth_maps |-> <<>>, nitrogen_loss_table |-> <<>>,
     import_export_tables |-> <<>>, import_export_maps |-> <<>>,
     inventory_harvest_section |-> <<>>]

(***************************************************************************)
(* State.                                                                  *)
(*   files          the CSV directories on disk, by year                   *)
(*   selected_year  the argument of the running (or last) callback         *)
(*   pc             the position of the callback; "done" and "raised" are  *)
(*                  its two ends (return, uncaught exception)              *)
(*   idx            the index of the stage loop                            *)
(*   exc            the exception that left the callback, if any           *)
(*   *_df           the frames returned by load_data, mutated in place     *)
(*   maps, nitrogen_loss_table_component, import_export_sections,         *)
(*   inventory_harvest_section   the artifacts being built                 *)
(*   page           the children of the five Output components            *)
(***************************************************************************)
VARIABLES files, selected_year, pc, idx, exc,
          nitrogen_df, area_df, inventory_df, crop_df, animal_df,
          total_nitrogen_df,
          maps, nitrogen_loss_table_component, import_export_sections,
          inventory_harvest_section, page

frames == <<nitrogen_df, area_df, inventory_df, crop_df, animal_df, total_nitrogen_df>>

artifacts == <<maps, nitrogen_loss_table_component, import_export_sections,
               inventory_harvest_section>>

vars == <<files, selected_year, pc, idx, exc, frames, artifacts, page>>

\* An uncaught exception leaves the callback: no output is written.
Raise(e) ==
    /\ pc' = "raised"
    /\ exc' = e
    /\ UNCHANGED page

\* The Input fires: the callback is invoked with the dropdown's value, which
\* is a year key or, when the dropdown is cleared, None.
SelectYear ==
    /\ pc \in {"done", "raised"}
    /\ \E year \in DOMAIN data_paths \cup {"None"} : selected_year' = year
    /\ pc' = "load"
    /\ exc' = NoException
    /\ idx' = 0
    /\ UNCHANGED <<files, frames, artifacts, page>>

\* load_data that keeps the frames of an earlier call.
LoadDataCached ==
    /\ pc = "load"
    /\ IF crop_df # EmptyFrame
       THEN /\ pc' = "loss_maps"
            /\ UNCHANGED <<exc, page, frames>>
       ELSE LET r == load_data(files, selected_year)
            IN  /\ nitrogen_df' = r.frames.nitrogen_df
                /\ area_df' = r.frames.area_df
                /\ inventory_df' = r.frames.inventory_df
                /\ crop_df' = r.frames.crop_df
                /\ animal_df' = r.frames.animal_df
                /\ total_nitrogen_df' = r.frames.total_nitrogen_df
                /\ IF r.exc # NoException THEN Raise(r.exc)
                   ELSE pc' = "loss_maps" /\ UNCHANGED <<exc, page>>
    /\ UNCHANGED <<files, selected_year, idx, artifacts>>

\* Line 151: the call of load_data.
LoadData ==
    /\ pc = "load"
    /\ LET r == load_data(files, selected_year)
       IN  IF r.exc # NoException
           THEN Raise(r.exc) /\ UNCHANGED frames
           ELSE /\ nitrogen_df' = r.frames.nitrogen_df
                /\ area_df' = r.frames.area_df
                /\ inventory_df' = r.frames.inventory_df
                /\ crop_df' = r.frames.crop_df
                /\ animal_df' = r.frames.animal_df
                /\ total_nitrogen_df' = r.frames.total_nitrogen_df
                /\ pc' = "loss_maps"
                /\ UNCHANGED <<exc, page>>
    /\ UNCHANGED <<files, selected_year, idx, artifacts>>

\* Lines 154-206: the log columns and the eight loss maps.
BuildLossMaps ==
    /\ pc = "loss_maps"
    /\ crop_df' = AddLogColumns(crop_df, crop_loss_columns)
    /\ animal_df' = AddLogColumns(animal_df, animal_loss_columns)
    /\ total_nitrogen_df' = AddLogColumn(total_nitrogen_df, s_total_nitrogen_loss)
    /\ maps' = LossMaps(crop_df', animal_df', total_nitrogen_df')
    /\ pc' = "loss_table"
    /\ UNCHANGED <<files, selected_year, idx, exc, nitrogen_df, area_df, inventory_df,
                   nitrogen_loss_table_component, import_export_sections,
                   inventory_harvest_section, page>>

\* Lines 208-231: the loss summary table.
BuildLossTable ==
    /\ pc = "loss_table"
    /\ nitrogen_loss_table_component' = nitrogen_loss_table(crop_df, animal_df)
    /\ import_export_sections' = <<>>
    /\ idx' = 0
    /\ pc' = "stages"
    /\ UNCHANGED <<files, selected_year, exc, frames, maps,
                   inventory_harvest_section, page>>

\* Lines 243-299: one iteration of the stage loop.  stage_dfs is
\* [crop_df, animal_df, animal_df].
BuildStageSection ==
    /\ pc = "stages"
    /\ idx < Len(stage_names)
    /\ LET columns  == stage_columns[idx + 1]
           stage_df == IF idx = 0 THEN crop_df ELSE animal_df
           logged   == AddLogColumns(stage_df, columns)
       IN  /\ IF idx = 0
              THEN crop_df' = logged /\ UNCHANGED animal_df
              ELSE animal_df' = logged /\ UNCHANGED crop_df
           /\ IF ~HasColumns(stage_df, columns) \/ ~HasColumn(stage_df, s_commodity)
              THEN /\ Raise("KeyError")
                   /\ UNCHANGED <<idx, import_export_sections>>
              ELSE /\ import_export_sections' =
                          Append(import_export_sections, StageSection(stage_df, columns))
                   /\ idx' = idx + 1
                   /\ pc' = IF idx + 1 = Len(stage_names) THEN "charts" ELSE "stages"
                   /\ UNCHANGED <<exc, page>>
    /\ UNCHANGED <<files, selected_year, nitrogen_df, area_df, inventory_df,
                   total_nitrogen_df, maps, nitrogen_loss_table_component,
                   inventory_harvest_section>>

\* Lines 301-342: the pies and the tables of inventory and harvested area.
BuildInventoryHarvest ==
    /\ pc = "charts"
    /\ IF \/ ~HasColumns(inventory_df, <<s_Commodity, s_Total_Inventory_head>>)
          \/ ~HasColumns(area_df, <<s_Commodity, s_Total_Harvested_Area_Acre>>)
       THEN /\ Raise("ValueError")
            /\ inventory_df' = FormatCommodityColumn(inventory_df)
            /\ area_df' = FormatCommodityColumn(area_df)
            /\ UNCHANGED inventory_harvest_section
       ELSE /\ inventory_harvest_section' = InventoryHarvestSection(inventory_df, area_df)
            /\ inventory_df' = RoundFrame(FormatCommodityColumn(inventory_df))
            /\ area_df' = RoundFrame(FormatCommodityColumn(area_df))
            /\ pc' = "return"
            /\ UNCHANGED <<exc, page>>
    /\ UNCHANGED <<files, selected_year, idx, nitrogen_df, crop_df, animal_df,
                   total_nitrogen_df, maps, nitrogen_loss_table_component,
                   import_export_sections>>

\* Lines 344-350: the five outputs are returned and written to the page.
Return ==
    /\ pc = "return"
    /\ page' = [chloropleth_maps          |-> maps,
                nitrogen_loss_table       |-> nitrogen_loss_table_component,
                import_export_tables      |-> import_export_sections,
                import_export_maps        |-> <<>>,
                inventory_harvest_section |-> inventory_harvest_section]
    /\ pc' = "done"
    /\ UNCHANGED <<files, selected_year, idx, exc, frames, artifacts>>

Next ==
    \/ SelectYear
    \/ LoadData
    \/ BuildLossMaps
    \/ BuildLossTable
    \/ BuildStageSection
    \/ BuildInventoryHarvest
    \/ Return

(***************************************************************************)
(* The files on disk.  A directory maps each of the five file names to a   *)
(* file: readable with a frame, missing, or malformed.                     *)
(***************************************************************************)
Readable(frame) == [state |-> "ok", frame |-> frame]

Missing == [state |-> "missing", frame |-> EmptyFrame]

Malformed == [state |-> "malformed", frame |-> EmptyFrame]

Directory(nitrogen, area, inventory, crop, animal) ==
    [nitrogen_losses_summary     |-> nitrogen,
     harvested_area_by_commodity |-> area,
     inventory_by_commodity      |-> inventory,
     crop_processing_nitrogen    |-> crop,
     animal_stage_nitrogen       |-> animal]

\* The column names of the files, before the rename of load_data.
Suffix(name) == SubSeq(name, Len(s_within_county) + 1, Len(name))

crop_file_columns ==
    <<s_FIPS, s_county, s_commodity, s_nitrogen_loss1, s_nitrogen_loss2,
      s_import_crop_processing_nitrogen, s_export_crop_processing_nitrogen,
      s_selfloop \o Suffix(s_within_county_crop_processing_nitrogen)>>

animal_file_columns ==
    <<s_FIPS, s_county, s_commodity,
      s_nitrogen_loss3, s_nitrogen_loss4, s_nitrogen_loss5, s_nitrogen_loss6,
      s_nitrogen_loss7,
      s_import_animal_nitrogen, s_export_animal_nitrogen,
      s_selfloop \o Suffix(s_within_county_animal_nitrogen),
      s_import_meat_nitrogen, s_export_meat_nitrogen,
      s_selfloop \o Suffix(s_within_county_meat_nitrogen)>>

Frame(columns, dtypes, data) == [columns |-> columns, dtypes |-> dtypes, data |-> data]

CropFrame(data) ==
    Frame(crop_file_columns,
          <<"num", "str", "str", "num", "num", "num", "num", "num">>, data)

AnimalFrame(data) ==
    Frame(animal_file_columns,
          <<"num", "str", "str", "num", "num", "num", "num", "num",
            "num", "num", "num", "num", "num", "num">>, data)

CommodityFrame(measure, data) == Frame(<<s_Commodity, measure>>, <<"str", "num">>, data)

\* Sample values.
Kent == <<"K","e","n","t">>

York == <<"Y","o","r","k">>

corn_grain == <<"c","o","r","n","_","g","r","a","i","n">>

soybeans == <<"s","o","y","b","e","a","n","s">>

beef_cattle == <<"b","e","e","f","_","c","a","t","t","l","e">>

\* A measure of n hundredths of a display unit, in base units.
Hundredths(n) == Num(n * (10 ^ 6 \div 10 ^ Decimals))

\* Half a hundredth of a display unit, in base units.
HalfHundredth == 10 ^ 6 \div (2 * 10 ^ Decimals)

CropRow(fips, county, commodity, loss1, loss2, import) ==
    <<fips, county, commodity, loss1, loss2, import, Hundredths(250), Hundredths(75)>>

AnimalRow(fips, county, commodity, loss3, loss4to6, loss7) ==
    <<fips, county, commodity, loss3, loss4to6, loss4to6, loss4to6, loss7,
      Hundredths(120), Hundredths(30), Hundredths(45),
      Hundredths(60), Hundredths(15), Hundredths(5)>>

BaseNitrogen ==
    Readable(Frame(<<s_FIPS, s_total_nitrogen_loss>>, <<"num", "num">>,
                   << <<Num(1), Hundredths(700)>> >>))

BaseArea ==
    Readable(CommodityFrame(s_Total_Harvested_Area_Acre,
                            << <<corn_grain, Num(125)>>, <<soybeans, Num(34)>> >>))

BaseInventory ==
    Readable(CommodityFrame(s_Total_Inventory_head,
                            << <<beef_cattle, Num(15)>> >>))

BaseCrop ==
    Readable(CropFrame(
        << CropRow(Num(1), Kent, corn_grain, Hundredths(100), Hundredths(100), Hundredths(1000)),
           CropRow(Num(2), York, soybeans, Hundredths(100), Hundredths(100), Hundredths(500)) >>))

BaseAnimal ==
    Readable(AnimalFrame(
        << AnimalRow(Num(1), Kent, beef_cattle, Hundredths(200), Hundredths(200), Hundredths(200)),
           AnimalRow(Num(2), York, beef_cattle, Hundredths(200), Hundredths(200), Hundredths(200)) >>))

BaseDirectory == Directory(BaseNitrogen, BaseArea, BaseInventory, BaseCrop, BaseAnimal)

\* A second readable scenario, with other values and labels.
OtherDirectory ==
    Directory(BaseNitrogen,
              Readable(CommodityFrame(s_Total_Harvested_Area_Acre,
                                      << <<soybeans, Num(15)>> >>)),
              Readable(CommodityFrame(s_Total_Inventory_head,
                                      << <<beef_cattle, Num(25)>> >>)),
              Readable(CropFrame(
                  << CropRow(Num(1), Kent, soybeans, Num(HalfHundredth), NaN, Hundredths(3)) >>)),
              Readable(AnimalFrame(
                  << AnimalRow(Num(3), York, beef_cattle, Num(HalfHundredth),
                               Num(HalfHundredth), Hundredths(1)) >>)))

\* A frame without one of its columns.
DropColumn(file, c) ==
    LET df   == file.frame
        keep == SelectSeq(df.columns, LAMBDA x : x # c)
    IN  Readable(Select(df, keep))

\* A frame with one more column, every cell of it 1.
ExtraColumn(file, c) ==
    LET df == file.frame
    IN  Readable(SetColumn(df, c, "num", [r \in DOMAIN df.data |-> Num(1)]))

WithFile(dir, name, file) == [dir EXCEPT ![name] = file]

\* Directories on which the callback fails, one per place of failure.
FailingDirectories ==
    { WithFile(BaseDirectory, "inventory_by_commodity", Missing),
      WithFile(BaseDirectory, "animal_stage_nitrogen", Malformed),
      WithFile(BaseDirectory, "crop_processing_nitrogen",
               DropColumn(BaseCrop, s_nitrogen_loss1)),
      WithFile(BaseDirectory, "animal_stage_nitrogen",
               DropColumn(BaseAnimal, s_county)),
      WithFile(BaseDirectory, "animal_stage_nitrogen",
               DropColumn(BaseAnimal, s_export_meat_nitrogen)),
      WithFile(BaseDirectory, "crop_processing_nitrogen",
               DropColumn(BaseCrop, s_commodity)),
      WithFile(BaseDirectory, "harvested_area_by_commodity",
               DropColumn(BaseArea, s_Commodity)) }

\* Everything but the files, when the page is first served: the callback
\* is invoked with the dropdown's initial value.
InitCallback ==
    /\ selected_year = initial_year
    /\ pc = "load"
    /\ idx = 0
    /\ exc = NoException
    /\ nitrogen_df = EmptyFrame
    /\ area_df = EmptyFrame
    /\ inventory_df = EmptyFrame
    /\ crop_df = EmptyFrame
    /\ animal_df = EmptyFrame
    /\ total_nitrogen_df = EmptyFrame
    /\ maps = <<>>
    /\ nitrogen_loss_table_component = <<>>
    /\ import_export_sections = <<>>
    /\ inventory_harvest_section = <<>>
    /\ page = EmptyPage

\* The disk with the 2017 directory given and the two others unreadable.
Disk(dir2017) ==
    [y \in DOMAIN data_paths |->
        IF y = "2017" THEN dir2017
        ELSE IF y = "2030" THEN WithFile(BaseDirectory, "inventory_by_commodity", Missing)
        ELSE WithFile(BaseDirectory, "animal_stage_nitrogen", Malformed)]

\* The 2017 directory is any of the readable or failing ones; the two
\* other years hold a readable scenario each, or a directory with a file
\* missing.
Init ==
    /\ files \in
          { f \in [DOMAIN data_paths ->
                     {BaseDirectory, OtherDirectory} \cup FailingDirectories] :
              /\ f["2030"] \in {BaseDirectory, OtherDirectory}
              /\ f["2050"] \in {OtherDirectory,
                                 WithFile(BaseDirectory, "inventory_by_commodity", Missing)} }
    /\ InitCallback

Spec == Init /\ [][Next]_vars

(***************************************************************************)
(* Properties of the callback as a whole, under Spec.                      *)
(***************************************************************************)
\* Whether update_dashboard(year) runs to its return on the files given.
Completes(disk, year) ==
    LET r == load_data(disk, year)
    IN  /\ r.exc = NoException
        /\ HasColumns(r.frames.crop_df, stage_columns[1] \o <<s_commodity>>)
        /\ HasColumns(r.frames.animal_df,
                      stage_columns[2] \o stage_columns[3] \o <<s_commodity>>)
        /\ HasColumns(r.frames.inventory_df, <<s_Commodity, s_Total_Inventory_head>>)
        /\ HasColumns(r.frames.area_df, <<s_Commodity, s_Total_Harvested_Area_Acre>>)

\* The five outputs a freshly started program returns for a year on which
\* the callback completes: every artifact computed from the frames as
\* load_data returns them.
FreshOutputs(disk, year) ==
    LET f == load_data(disk, year).frames
    IN  [chloropleth_maps |->
            LossMaps(AddLogColumns(f.crop_df, crop_loss_columns),
                     AddLogColumns(f.animal_df, animal_loss_columns),
                     AddLogColumn(f.total_nitrogen_df, s_total_nitrogen_loss)),
         nitrogen_loss_table |-> nitrogen_loss_table(f.crop_df, f.animal_df),
         import_export_tables |->
            << StageSection(f.crop_df, stage_columns[1]),
               StageSection(f.animal_df, stage_columns[2]),
               StageSection(f.animal_df, stage_columns[3]) >>,
         import_export_maps |-> <<>>,
         inventory_harvest_section |->
            InventoryHarvestSection(f.inventory_df, f.area_df)]

\* C6: whatever was selected before, the outputs returned for a year are
\* those a freshly started program returns for it: nothing an earlier
\* invocation loaded or derived (log columns, formatted labels, rounded
\* tables) reaches a later one.  The callback returns only for a year on
\* which a fresh program completes.
C6_PureFunctionOfYear ==
    pc = "done" =>
        /\ Completes(files, selected_year)
        /\ page = FreshOutputs(files, selected_year)

\* The callback has returned for a year other than the first one served,
\* after the first invocation (for 2017) completed with other outputs.
C6_Witness ==
    /\ pc = "done"
    /\ selected_year # initial_year
    /\ Completes(files, initial_year)
    /\ FreshOutputs(files, initial_year) # FreshOutputs(files, selected_year)
    /\ page = FreshOutputs(files, selected_year)

\* C7: a recomputation whose loading or aggregation fails (unrecognized
\* year key, missing or malformed file, expected column absent) ends with
\* the callback returning a reported error state for the request, not with
\* an uncaught exception leaving the callback.
C7_FailureReportedNotRaised ==
    (pc \in {"done", "raised"} /\ ~Completes(files, selected_year))
        => (pc = "done" /\ exc # NoException)

\* The half of C7 that the code keeps: the step on which an exception leaves
\* the callback writes none of the five outputs.
AllOrNothing == [][pc' = "raised" => page' = page]_vars

(***************************************************************************)
(* County-level aggregation (load_data, lines 65-72), under SpecCounty:    *)
(* the crop file has two rows and the animal file one, each with any key   *)
(* and any county name, missing ones included; the row totals are the      *)
(* distinct powers of two 1, 2 and 4, so that a grouped total tells which  *)
(* rows it adds.                                                           *)
(***************************************************************************)
MaxFips == 2

KeyInputs == {NaN} \cup {Num(k) : k \in 1..MaxFips}

NameInputs == {NaN, Kent, York}

CountyDirectory(k1, n1, k2, n2, k3, n3) ==
    Directory(BaseNitrogen, BaseArea, BaseInventory,
              Readable(CropFrame(
                  << CropRow(k1, n1, corn_grain, Num(1), Num(0), Hundredths(1000)),
                     CropRow(k2, n2, soybeans, NaN, Num(2), Hundredths(500)) >>)),
              Readable(AnimalFrame(
                  << AnimalRow(k3, n3, beef_cattle, Num(4), Num(0), Num(0)) >>)))

InitCounty ==
    /\ \E k1, k2, k3 \in KeyInputs : \E n1, n2, n3 \in NameInputs :
          files = Disk(CountyDirectory(k1, n1, k2, n2, k3, n3))
    /\ InitCallback

SpecCounty == InitCounty /\ [][Next]_vars

\* load_data has just returned.
Loaded == pc = "loss_maps"

\* The keys (FIPS) that occur in a frame.
KeysOf(df) == {c \in {Column(df, s_FIPS)[r] : r \in DOMAIN df.data} : ~IsNa(c)}

\* The rows of a frame whose key is k.
RowsOfKey(df, k) == {r \in DOMAIN df.data : Column(df, s_FIPS)[r] = k}

RECURSIVE SumOver(_, _)
SumOver(f, S) ==
    IF S = {} THEN 0
    ELSE LET x == CHOOSE x \in S : TRUE IN f[x] + SumOver(f, S \ {x})

\* The sum of the per-row total_nitrogen_loss of key k in a frame.
LossOfKey(df, k) ==
    SumOver([r \in DOMAIN df.data |-> ValueOrZero(Column(df, s_total_nitrogen_loss)[r])],
            RowsOfKey(df, k))

\* C1: for every key of the crop table, the animal table or both, the
\* county-level table holds one row, whose total is the sum of the per-row
\* total_nitrogen_loss of the key over both tables (a + b for a key in both,
\* the single value for a key in one); it holds no other key.
C1_CountyTotals ==
    Loaded =>
        /\ KeysOf(total_nitrogen_df) = KeysOf(crop_df) \cup KeysOf(animal_df)
        /\ \A k \in KeysOf(crop_df) \cup KeysOf(animal_df) :
              /\ Cardinality(RowsOfKey(total_nitrogen_df, k)) = 1
              /\ \A r \in RowsOfKey(total_nitrogen_df, k) :
                    Column(total_nitrogen_df, s_total_nitrogen_loss)[r]
                        = Num(LossOfKey(crop_df, k) + LossOfKey(animal_df, k))

\* One key is in both tables and another in the crop table alone.
C1_Witness ==
    /\ Loaded
    /\ \E k \in KeysOf(crop_df) \cap KeysOf(animal_df) :
          LossOfKey(crop_df, k) > 0 /\ LossOfKey(animal_df, k) > 0
    /\ \E k \in KeysOf(crop_df) \ KeysOf(animal_df) : LossOfKey(crop_df, k) > 0

\* The name the county-level table holds for key k.
NameOfKey(df, k) ==
    Column(df, s_county)[CHOOSE r \in DOMAIN df.data : Column(df, s_FIPS)[r] = k]

ReverseRows(df) ==
    [df EXCEPT !.data = [r \in DOMAIN df.data |-> df.data[Len(df.data) + 1 - r]]]

CropPart == Select(crop_df, county_columns)

AnimalPart == Select(animal_df, county_columns)

\* The same name is retained for every key when the two tables are swapped
\* and when the rows of both are reversed.
OrderIndependent(k) ==
    /\ NameOfKey(total_nitrogen_df, k) = NameOfKey(GroupByFips(AnimalPart, CropPart), k)
    /\ NameOfKey(total_nitrogen_df, k)
          = NameOfKey(GroupByFips(ReverseRows(CropPart), ReverseRows(AnimalPart)), k)

\* C2 as stated: one name per key, the same whatever the order of the
\* tables and of their rows.
C2_NameIndependentOfOrder ==
    Loaded =>
        \A k \in KeysOf(crop_df) \cup KeysOf(animal_df) :
            /\ Cardinality(RowsOfKey(total_nitrogen_df, k)) = 1
            /\ OrderIndependent(k)

\* The names recorded for key k, in the order crop rows, then animal rows.
NamesInOrder(k) ==
    LET both == CropPart.data \o AnimalPart.data
        at   == {i \in DOMAIN both : both[i][1] = k /\ ~IsNa(both[i][2])}
    IN  [first |-> IF at = {} THEN NaN
                   ELSE both[CHOOSE i \in at : \A j \in at : i <= j][2],
         all   |-> {both[i][2] : i \in at}]

\* C2 as amended: one name per key, the first non-missing name among the
\* crop rows and then the animal rows of the key (missing when there is
\* none); it is the same whatever the order of the tables and of their rows
\* when the non-missing names recorded for the key all agree.
C2_FirstNameInConcatOrder ==
    Loaded =>
        \A k \in KeysOf(crop_df) \cup KeysOf(animal_df) :
            /\ Cardinality(RowsOfKey(total_nitrogen_df, k)) = 1
            /\ NameOfKey(total_nitrogen_df, k) = NamesInOrder(k).first
            /\ Cardinality(NamesInOrder(k).all) <= 1 => OrderIndependent(k)

\* A key has a missing name in its first crop row and two names that differ
\* in its second crop row and its animal row: the second crop row's name is
\* retained.
C2_Witness ==
    /\ Loaded
    /\ \E k \in KeysOf(crop_df) \cap KeysOf(animal_df) :
          /\ Cardinality(RowsOfKey(crop_df, k)) = 2
          /\ IsNa(CropPart.data[1][2])
          /\ Cardinality(NamesInOrder(k).all) = 2
          /\ NameOfKey(total_nitrogen_df, k) = CropPart.data[2][2]

(***************************************************************************)
(* Per-row totals and the loss summary table, under SpecLoss: one crop row *)
(* and one animal row whose loss categories are missing or a whole number  *)
(* of half hundredths of a display unit (5000 base units), which is where  *)
(* rounding to 2 decimals has its ties.                                    *)
(***************************************************************************)
MaxHalfHundredths == 2

LossInputs == {NaN} \cup {Num(k * HalfHundredth) : k \in 0..MaxHalfHundredths}

LossDirectory(l1, l2, l3, l4to7) ==
    Directory(BaseNitrogen, BaseArea, BaseInventory,
              Readable(CropFrame(
                  << CropRow(Num(1), Kent, corn_grain, l1, l2, Hundredths(1000)) >>)),
              Readable(AnimalFrame(
                  << AnimalRow(Num(1), Kent, beef_cattle, l3, l4to7, l4to7) >>)))

InitLoss ==
    /\ \E l1, l2, l3, l4to7 \in LossInputs :
          files = Disk(LossDirectory(l1, l2, l3, l4to7))
    /\ InitCallback

SpecLoss == InitLoss /\ [][Next]_vars

\* The cell of column c in row r.
Cell(df, r, c) == Column(df, c)[r]

\* C10: every crop row's total_nitrogen_loss is nitrogen_loss1 +
\* nitrogen_loss2 and every animal row's is nitrogen_loss3 + ... +
\* nitrogen_loss7, a missing category counting as zero, so that the total
\* is never missing.
C10_RowTotals ==
    Loaded =>
        /\ \A r \in DOMAIN crop_df.data :
              Cell(crop_df, r, s_total_nitrogen_loss)
                  = Num(ValueOrZero(Cell(crop_df, r, s_nitrogen_loss1))
                        + ValueOrZero(Cell(crop_df, r, s_nitrogen_loss2)))
        /\ \A r \in DOMAIN animal_df.data :
              Cell(animal_df, r, s_total_nitrogen_loss)
                  = Num(ValueOrZero(Cell(animal_df, r, s_nitrogen_loss3))
                        + ValueOrZero(Cell(animal_df, r, s_nitrogen_loss4))
                        + ValueOrZero(Cell(animal_df, r, s_nitrogen_loss5))
                        + ValueOrZero(Cell(animal_df, r, s_nitrogen_loss6))
                        + ValueOrZero(Cell(animal_df, r, s_nitrogen_loss7)))

\* A crop row with a missing category and a positive one, and an animal row
\* with a zero category and a positive one.
C10_Witness ==
    /\ Loaded
    /\ \E r \in DOMAIN crop_df.data :
          /\ IsNa(Cell(crop_df, r, s_nitrogen_loss1))
          /\ ValueOrZero(Cell(crop_df, r, s_nitrogen_loss2)) > 0
          /\ Cell(crop_df, r, s_total_nitrogen_loss) = Cell(crop_df, r, s_nitrogen_loss2)
    /\ \E r \in DOMAIN animal_df.data :
          /\ Cell(animal_df, r, s_nitrogen_loss3) = Num(0)
          /\ ValueOrZero(Cell(animal_df, r, s_nitrogen_loss7)) > 0

\* The loss summary table has just been built.
TableBuilt == pc = "stages" /\ idx = 0

\* The raw sum of loss category i (1..7) over the rows of its file.
RawCategorySum(i) ==
    LET dir == files[selected_year]
        df  == IF i <= 2 THEN dir["crop_processing_nitrogen"].frame
               ELSE dir["animal_stage_nitrogen"].frame
    IN  SumOver([r \in DOMAIN df.data |->
                    ValueOrZero(Cell(df, r, nitrogen_loss_labels[i].col))],
                DOMAIN df.data)

RawTotal == SumOver([i \in 1..7 |-> RawCategorySum(i)], 1..7)

\* The sum of the seven per-category values the table shows.
SumOfShown ==
    SumOver([i \in 1..7 |-> nitrogen_loss_table_component[i].total], 1..7)

ShownTotal == nitrogen_loss_table_component[8].total

\* C3: the total row is the sum of the seven raw category sums, divided by
\* 10 ^ 6 and rounded once to 2 decimals (here: in hundredths), whether or
\* not that is what adding the seven rounded values gives.
C3_TotalRoundedOnce ==
    TableBuilt => ShownTotal = RoundHalfEven(RawTotal, 10 ^ 6 \div 10 ^ Decimals)

\* The two ways of computing the total differ.
C3_Witness ==
    /\ TableBuilt
    /\ ShownTotal = RoundHalfEven(RawTotal, 10 ^ 6 \div 10 ^ Decimals)
    /\ ShownTotal # SumOfShown

\* C4 as stated: the seven values shown add up to the total shown.
C4_ShownValuesAddUp == TableBuilt => SumOfShown = ShownTotal

Abs(x) == IF x < 0 THEN 0 - x ELSE x

\* Every category sum is a whole number of hundredths of a display unit.
NothingToRound ==
    \A i \in 1..7 : RawCategorySum(i) % (10 ^ 6 \div 10 ^ Decimals) = 0

\* C4 as amended: the seven values shown add up to the total shown when no
\* category sum needs rounding; in general the two differ by at most 0.04
\* (four hundredths).
C4_ShownValuesNearTotal ==
    TableBuilt =>
        /\ NothingToRound => SumOfShown = ShownTotal
        /\ Abs(SumOfShown - ShownTotal) <= 4

\* No category needs rounding, every category is positive, and the values
\* add up; the total is of both tables.
C4_Witness ==
    /\ TableBuilt
    /\ NothingToRound
    /\ \A i \in 1..7 : RawCategorySum(i) > 0
    /\ SumOfShown = ShownTotal
    /\ ShownTotal > 0

(***************************************************************************)
(* The column rename of load_data, under SpecRename: one more column, of   *)
(* any name made of at most MaxFragments fragments, in the crop and animal *)
(* files alone or in all five files.                                       *)
(***************************************************************************)
MaxFragments == 2

NameFragments ==
    {s_selfloop, <<"_", "x">>, <<"s", "e", "l", "f">>, <<"l", "o", "o", "p">>}

RECURSIVE NamesOfFragments(_)
NamesOfFragments(n) ==
    IF n = 0 THEN {<<>>}
    ELSE {f \o s : f \in NameFragments, s \in NamesOfFragments(n - 1)}

ColumnNameInputs == UNION {NamesOfFragments(n) : n \in 1..MaxFragments}

RenameDirectory(name, everywhere) ==
    Directory(IF everywhere THEN ExtraColumn(BaseNitrogen, name) ELSE BaseNitrogen,
              IF everywhere THEN ExtraColumn(BaseArea, name) ELSE BaseArea,
              IF everywhere THEN ExtraColumn(BaseInventory, name) ELSE BaseInventory,
              ExtraColumn(BaseCrop, name),
              ExtraColumn(BaseAnimal, name))

InitRename ==
    /\ \E name \in ColumnNameInputs : \E everywhere \in BOOLEAN :
          files = Disk(RenameDirectory(name, everywhere))
    /\ InitCallback

SpecRename == InitRename /\ [][Next]_vars

HasSelfloopColumn(df) ==
    \E i \in DOMAIN df.columns : StartsWith(df.columns[i], s_selfloop)

\* C8 as stated: no column name of any of the five frames load_data returns
\* begins with "selfloop".
C8_NoSelfloopInFiveTables ==
    Loaded =>
        /\ ~HasSelfloopColumn(nitrogen_df)
        /\ ~HasSelfloopColumn(area_df)
        /\ ~HasSelfloopColumn(inventory_df)
        /\ ~HasSelfloopColumn(crop_df)
        /\ ~HasSelfloopColumn(animal_df)

\* C8 as amended: no column name of the crop and animal frames load_data
\* returns begins with "selfloop".
C8_NoSelfloopInCropAndAnimal ==
    Loaded => ~HasSelfloopColumn(crop_df) /\ ~HasSelfloopColumn(animal_df)

\* The files read.
CropFile == files[selected_year]["crop_processing_nitrogen"].frame

AnimalFile == files[selected_year]["animal_stage_nitrogen"].frame

\* Both files had columns beginning with "selfloop", the added one among
\* them, and the frames returned have none.
C8_Witness ==
    /\ Loaded
    /\ StartsWith(CropFile.columns[Len(CropFile.columns)], s_selfloop)
    /\ StartsWith(AnimalFile.columns[Len(AnimalFile.columns)], s_selfloop)
    /\ Len(CropFile.columns[Len(CropFile.columns)]) > Len(s_selfloop)
    /\ ~HasSelfloopColumn(crop_df)
    /\ ~HasSelfloopColumn(animal_df)

\* The rename of the leading prefix only.
PrefixRenamed(col) ==
    IF StartsWith(col, s_selfloop)
    THEN s_within_county \o SubSeq(col, Len(s_selfloop) + 1, Len(col))
    ELSE col

\* C9: every column name of the crop and animal files comes out with its
\* leading "selfloop", if it has one, replaced by "within_county" and
\* nothing else changed.
C9_OnlyLeadingPrefixRenamed ==
    Loaded =>
        /\ \A i \in DOMAIN CropFile.columns :
              crop_df.columns[i] = PrefixRenamed(CropFile.columns[i])
        /\ \A i \in DOMAIN AnimalFile.columns :
              animal_df.columns[i] = PrefixRenamed(AnimalFile.columns[i])

(***************************************************************************)
(* Commodity grouping of the stage tables, under SpecGroup: the two crop   *)
(* rows carry any two spellings of "corn grain", or a missing label.       *)
(***************************************************************************)
FirstWords == {<<"c","o","r","n">>, <<"C","O","R","N">>, <<"C","o","r","n">>}

SecondWords == {<<"g","r","a","i","n">>, <<"G","R","A","I","N">>, <<"G","r","a","i","n">>}

Separators == {<<"_">>, <<" ">>}

LabelInputs ==
    {NaN} \cup {a \o s \o b : a \in FirstWords, s \in Separators, b \in SecondWords}

GroupDirectory(label1, label2) ==
    Directory(BaseNitrogen, BaseArea, BaseInventory,
              Readable(CropFrame(
                  << CropRow(Num(1), Kent, label1, Hundredths(100), Hundredths(100), Hundredths(1000)),
                     CropRow(Num(2), York, label2, Hundredths(100), Hundredths(100), Hundredths(500)) >>)),
              BaseAnimal)

InitGroup ==
    /\ \E label1, label2 \in LabelInputs : files = Disk(GroupDirectory(label1, label2))
    /\ InitCallback

SpecGroup == InitGroup /\ [][Next]_vars

\* The table of the first stage has just been built from the crop frame.
CropStageBuilt == pc = "stages" /\ idx = 1

CropStageTable == import_export_sections[1].table

\* The rows of the crop file whose label reads as shown once formatted.
RowsShownAs(shown) ==
    {r \in DOMAIN CropFile.data :
        /\ ~IsNa(Cell(CropFile, r, s_commodity))
        /\ FormatCommodity(Cell(CropFile, r, s_commodity)) = shown}

\* C5: rows whose labels are the same once formatted are one row of the
\* stage table, with the formatted label and the sum of their measures: for
\* every label of the file the table has exactly one row showing it, which
\* holds the converted sum of the import measure of the rows shown so.
C5_OneRowPerShownLabel ==
    CropStageBuilt =>
        \A r \in DOMAIN CropFile.data :
            ~IsNa(Cell(CropFile, r, s_commodity)) =>
                LET shown == FormatCommodity(Cell(CropFile, r, s_commodity))
                    rows  == {k \in DOMAIN CropStageTable.data :
                                 CropStageTable.data[k][1] = shown}
                IN  /\ Cardinality(rows) = 1
                    /\ \A k \in rows :
                          CropStageTable.data[k][2] =
                              RoundKTons(SumOver(
                                  [x \in DOMAIN CropFile.data |->
                                      ValueOrZero(Cell(CropFile, x,
                                          s_import_crop_processing_nitrogen))],
                                  RowsShownAs(shown)))
=============================================================================
